---------------------------- MODULE Spec2Model ----------------------------
(***************************************************************************)
(* Model of utils/ipc/extract-docs.py: main() reads a mojom file, copies   *)
(* every doxygen block (a line "/**" up to a line " */") into a string     *)
(* wrapped in a fixed header and footer, and writes that string once.      *)
(*                                                                         *)
(* Text is modelled as a sequence of one-character strings, a line as the  *)
(* text of that line including its terminator when it has one.             *)
(***************************************************************************)
EXTENDS Naturals, Integers, Sequences, FiniteSets

(***************************************************************************)
(* Bounds of the model.                                                    *)
(***************************************************************************)
MaxLines == 4

(***************************************************************************)
(* Text helpers.                                                           *)
(***************************************************************************)
NL == "\n"

RECURSIVE Concat(_)
Concat(ss) == IF ss = << >> THEN << >> ELSE Head(ss) \o Concat(Tail(ss))

HasPrefix(s, p) == Len(s) >= Len(p) /\ SubSeq(s, 1, Len(p)) = p

Drop(s, n) == SubSeq(s, n + 1, Len(s))

(***************************************************************************)
(* The two compiled patterns, applied with match(): the pattern is         *)
(* anchored at the start of the line, and $ accepts the end of the line or *)
(* the position before a terminator that ends the line.                    *)
(***************************************************************************)
AtDollar(rest) == rest = << >> \/ rest = << NL >>

StartLiteral == << "/", "*", "*" >>

EndLiteral == << " ", "*", "/" >>

regex_block_start(line) ==
    HasPrefix(line, StartLiteral) /\ AtDollar(Drop(line, Len(StartLiteral)))

regex_block_end(line) ==
    HasPrefix(line, EndLiteral) /\ AtDollar(Drop(line, Len(EndLiteral)))

(***************************************************************************)
(* pipeline = args.input.split('/')[-1].replace('.mojom', '')              *)
(***************************************************************************)
Mojom == << ".", "m", "o", "j", "o", "m" >>

RECURSIVE LastComponent(_)
LastComponent(path) ==
    IF \E i \in 1..Len(path) : path[i] = "/"
    THEN LastComponent(Tail(path))
    ELSE path

RECURSIVE ReplaceMojom(_)
ReplaceMojom(s) ==
    IF s = << >> THEN << >>
    ELSE IF HasPrefix(s, Mojom) THEN ReplaceMojom(Drop(s, Len(Mojom)))
    ELSE << Head(s) >> \o ReplaceMojom(Tail(s))

Pipeline(input) == ReplaceMojom(LastComponent(input))

(***************************************************************************)
(* The generated text around the blocks.                                   *)
(***************************************************************************)
HeaderPrefix ==
    <<
       "/", "*", " ", "S", "P", "D", "X", "-", "L", "i", "c", "e",
       "n", "s", "e", "-", "I", "d", "e", "n", "t", "i", "f", "i",
       "e", "r", ":", " ", "L", "G", "P", "L", "-", "2", ".", "1",
       "-", "o", "r", "-", "l", "a", "t", "e", "r", " ", "*", "/",
       "\n", "/", "*", "\n", " ", "*", " ", "C", "o", "p", "y", "r",
       "i", "g", "h", "t", " ", "(", "C", ")", " ", "2", "0", "2",
       "1", ",", " ", "G", "o", "o", "g", "l", "e", " ", "I", "n",
       "c", ".", "\n", " ", "*", "\n", " ", "*", " " >>

HeaderMiddle ==
    <<
       "_", "i", "p", "a", "_", "i", "n", "t", "e", "r", "f", "a",
       "c", "e", ".", "c", "p", "p", " ", "-", " ", "D", "o", "c",
       "s", " ", "f", "i", "l", "e", " ", "f", "o", "r", " ", "g",
       "e", "n", "e", "r", "a", "t", "e", "d", " " >>

HeaderSuffix ==
    <<
       ".", "m", "o", "j", "o", "m", "\n", " ", "*", "\n", " ", "*",
       " ", "T", "h", "i", "s", " ", "f", "i", "l", "e", " ", "i",
       "s", " ", "a", "u", "t", "o", "-", "g", "e", "n", "e", "r",
       "a", "t", "e", "d", ".", " ", "D", "o", " ", "n", "o", "t",
       " ", "e", "d", "i", "t", ".", "\n", " ", "*", "/", "\n", "\n",
       "n", "a", "m", "e", "s", "p", "a", "c", "e", " ", "l", "i",
       "b", "c", "a", "m", "e", "r", "a", " ", "{", "\n", "\n" >>

Footer ==
    <<
       "}", " ", "/", "*", " ", "n", "a", "m", "e", "s", "p", "a",
       "c", "e", " ", "l", "i", "b", "c", "a", "m", "e", "r", "a",
       " ", "*", "/", "\n" >>

Header(name) ==
    HeaderPrefix \o name \o HeaderMiddle \o name \o HeaderSuffix

(***************************************************************************)
(* Inputs: the command line and the two files it names.                    *)
(***************************************************************************)
StartLine == << "/", "*", "*", NL >>

EndLine == << " ", "*", "/", NL >>

TextLine == << " ", "*", " ", "a", NL >>

TerminatedLines ==
    { StartLine, EndLine, TextLine,
      << "/", "*", "*", " ", NL >>,
      << "*", "/", NL >> }

UnterminatedLines ==
    { << "/", "*", "*" >>, << " ", "*", "/" >>, << " ", "*", " ", "a" >> }

\* readlines() splits after every terminator: only the last line of a file
\* can lack one, and no line is empty.
LinesOfLen(n) ==
    IF n = 0 THEN { << >> }
    ELSE { body \o << last >> :
             body \in [1..(n - 1) -> TerminatedLines],
             last \in TerminatedLines \cup UnterminatedLines }

InputLines == UNION { LinesOfLen(n) : n \in 0..MaxLines }

InputPaths ==
    { << "a", "/", "b", "/", "f", "o", "o", ".", "m", "o", "j", "o", "m" >>,
      << "x", ".", "m", "o", "j", "o", "m", "y", ".", "m", "o", "j", "o", "m" >> }

OldContent == << "o", "l", "d", NL >>

NoFile == [exists |-> FALSE, content |-> << >>]

File(c) == [exists |-> TRUE, content |-> c]

NoError ==
    [type |-> "none", msg |-> "", filename |-> << >>, lineno |-> 0,
     offset |-> 0, text |-> << >>]

FileNotFoundError(input) ==
    [type |-> "FileNotFoundError", msg |-> "No such file or directory",
     filename |-> input, lineno |-> 0, offset |-> 0, text |-> << >>]

SyntaxErrorZeroBased(input, n, line) ==
    [type |-> "SyntaxError", msg |-> "Expected end of comment",
     filename |-> input, lineno |-> n - 1, offset |-> 1, text |-> line]

SyntaxError(input, n, line) ==
    [type |-> "SyntaxError", msg |-> "Expected end of comment",
     filename |-> input, lineno |-> n, offset |-> 1, text |-> line]

(***************************************************************************)
(* State of one run of main().                                             *)
(***************************************************************************)
VARIABLES
    input,       \* args.input, the path given on the command line
    output,      \* args.output: "unset", "stdout" or "file"
    has_o,       \* whether -o was given
    inputFile,   \* the file at args.input: its lines, when it exists
    outFile,     \* the file named by -o
    stdout,      \* what was written to standard output
    pc,          \* position in main()
    lines,       \* the lines read from the input
    pipeline,    \* the derived name
    data,        \* the assembled output
    in_block,    \* a block is open
    comment,     \* the text of the block being scanned
    lineno,      \* number of the line last taken by the loop
    err,         \* the exception that ended the run, if any
    status       \* exit status, -1 while running

vars ==
    << input, output, has_o, inputFile, outFile, stdout, pc, lines,
       pipeline, data, in_block, comment, lineno, err, status >>

cmdline == << input, has_o, inputFile >>

Init ==
    /\ input \in InputPaths
    /\ has_o \in BOOLEAN
    /\ inputFile \in { NoFile } \cup { File(ls) : ls \in InputLines }
    /\ outFile \in (IF has_o THEN { NoFile, File(OldContent) } ELSE { NoFile })
    /\ output = "unset"
    /\ stdout = << >>
    /\ pc = "parse_args"
    /\ lines = << >>
    /\ pipeline = << >>
    /\ data = << >>
    /\ in_block = FALSE
    /\ comment = << >>
    /\ lineno = 0
    /\ err = NoError
    /\ status = -1

(***************************************************************************)
(* The loop body as functions of the scan state and the current line.      *)
(***************************************************************************)
ScanState == [in_block |-> in_block, comment |-> comment, data |-> data]

OnBlockStartKeep(s, line) ==
    [in_block |-> TRUE, comment |-> s.comment \o line, data |-> s.data]

OnBlockStart(s, line) ==
    [in_block |-> TRUE, comment |-> line, data |-> s.data]

OnBlockEndUnguarded(s, line) ==
    [in_block |-> FALSE, comment |-> s.comment \o line,
     data |-> s.data \o (s.comment \o line) \o << NL >>]

OnBlockEndPrepend(s, line) ==
    IF s.in_block
    THEN [in_block |-> FALSE, comment |-> s.comment \o line,
          data |-> (s.comment \o line) \o << NL >> \o s.data]
    ELSE [s EXCEPT !.in_block = FALSE]

OnBlockEndReset(s, line) ==
    IF s.in_block
    THEN [in_block |-> FALSE, comment |-> << >>,
          data |-> s.data \o (s.comment \o line) \o << NL >>]
    ELSE [s EXCEPT !.in_block = FALSE]

OnBlockEndStaysOpen(s, line) ==
    IF s.in_block
    THEN [in_block |-> TRUE, comment |-> s.comment \o line,
          data |-> s.data \o (s.comment \o line) \o << NL >>]
    ELSE s

OnBlockEnd(s, line) ==
    IF s.in_block
    THEN [in_block |-> FALSE, comment |-> s.comment \o line,
          data |-> s.data \o (s.comment \o line) \o << NL >>]
    ELSE [s EXCEPT !.in_block = FALSE]

OnOtherLineAlways(s, line) == [s EXCEPT !.comment = @ \o line]

OnOtherLineDropped(s, line) == s

OnOtherLine(s, line) ==
    IF s.in_block THEN [s EXCEPT !.comment = @ \o line] ELSE s

AppendFooterFlush(s) ==
    IF s.in_block THEN s.data \o s.comment \o Footer ELSE s.data \o Footer

AppendFooter(s) == s.data \o Footer

(***************************************************************************)
(* The run as a function of the input path and the lines read: the loop    *)
(* over the lines, then the footer.  The result is the text written, or    *)
(* the number of the line at which the error is raised.                    *)
(***************************************************************************)
RECURSIVE ScanLines(_, _, _)
ScanLines(s, ls, n) ==
    IF n > Len(ls) THEN [ok |-> TRUE, lineno |-> 0, state |-> s]
    ELSE IF regex_block_start(ls[n])
         THEN IF s.in_block
              THEN [ok |-> FALSE, lineno |-> n, state |-> s]
              ELSE ScanLines(OnBlockStart(s, ls[n]), ls, n + 1)
    ELSE IF regex_block_end(ls[n])
         THEN ScanLines(OnBlockEnd(s, ls[n]), ls, n + 1)
    ELSE ScanLines(OnOtherLine(s, ls[n]), ls, n + 1)

Main(path, ls) ==
    LET r == ScanLines([in_block |-> FALSE, comment |-> << >>,
                        data |-> Header(Pipeline(path))], ls, 1)
    IN IF r.ok
       THEN [ok |-> TRUE, lineno |-> 0, out |-> AppendFooter(r.state)]
       ELSE [ok |-> FALSE, lineno |-> r.lineno, out |-> << >>]

(***************************************************************************)
(* main()                                                                  *)
(***************************************************************************)
\* parse_args(): FileType('w') opens the file named by -o at once, which
\* creates it or truncates it.
ParseArgs ==
    /\ pc = "parse_args"
    /\ output' = IF has_o THEN "file" ELSE "stdout"
    /\ outFile' = IF has_o THEN File(<< >>) ELSE outFile
    /\ pc' = "readlines"
    /\ UNCHANGED << cmdline, stdout, lines, pipeline, data, in_block,
                    comment, lineno, err, status >>

ReadLines ==
    /\ pc = "readlines"
    /\ inputFile.exists
    /\ lines' = inputFile.content
    /\ pc' = "header"
    /\ UNCHANGED << cmdline, output, outFile, stdout, pipeline, data,
                    in_block, comment, lineno, err, status >>

ReadLinesFails ==
    /\ pc = "readlines"
    /\ ~inputFile.exists
    /\ err' = FileNotFoundError(input)
    /\ status' = 1
    /\ pc' = "raised"
    /\ UNCHANGED << cmdline, output, outFile, stdout, lines, pipeline, data,
                    in_block, comment, lineno >>

BuildHeader ==
    /\ pc = "header"
    /\ pipeline' = Pipeline(input)
    /\ data' = Header(Pipeline(input))
    /\ in_block' = FALSE
    /\ comment' = << >>
    /\ pc' = "scan"
    /\ UNCHANGED << cmdline, output, outFile, stdout, lines, lineno, err,
                    status >>

\* One iteration of the loop on a line that matches regex_block_start.
ScanStart ==
    /\ pc = "scan"
    /\ lineno < Len(lines)
    /\ LET n == lineno + 1
           line == lines[n]
       IN /\ regex_block_start(line)
          /\ lineno' = n
          /\ IF in_block
             THEN /\ err' = SyntaxError(input, n, line)
                  /\ pc' = "raised"
                  /\ status' = 1
                  /\ UNCHANGED << in_block, comment, data >>
             ELSE /\ in_block' = OnBlockStart(ScanState, line).in_block
                  /\ comment' = OnBlockStart(ScanState, line).comment
                  /\ data' = OnBlockStart(ScanState, line).data
                  /\ UNCHANGED << err, pc, status >>
    /\ UNCHANGED << cmdline, output, outFile, stdout, lines, pipeline >>

\* A variant of the iteration below that writes each block as it is closed.
ScanEndStreaming ==
    /\ pc = "scan"
    /\ lineno < Len(lines)
    /\ LET n == lineno + 1
           line == lines[n]
           s == OnBlockEnd(ScanState, line)
           text == IF in_block THEN s.comment \o << NL >> ELSE << >>
       IN /\ ~regex_block_start(line)
          /\ regex_block_end(line)
          /\ lineno' = n
          /\ in_block' = s.in_block
          /\ comment' = s.comment
          /\ data' = s.data
          /\ IF output = "file"
             THEN outFile' = File(outFile.content \o text) /\ UNCHANGED stdout
             ELSE stdout' = stdout \o text /\ UNCHANGED outFile
    /\ UNCHANGED << cmdline, output, pc, lines, pipeline, err, status >>

\* One iteration on a line that matches regex_block_end.
ScanEnd ==
    /\ pc = "scan"
    /\ lineno < Len(lines)
    /\ LET n == lineno + 1
           line == lines[n]
       IN /\ ~regex_block_start(line)
          /\ regex_block_end(line)
          /\ lineno' = n
          /\ in_block' = OnBlockEnd(ScanState, line).in_block
          /\ comment' = OnBlockEnd(ScanState, line).comment
          /\ data' = OnBlockEnd(ScanState, line).data
    /\ UNCHANGED << cmdline, output, outFile, stdout, pc, lines, pipeline,
                    err, status >>

\* One iteration on a line that matches neither pattern.
ScanOther ==
    /\ pc = "scan"
    /\ lineno < Len(lines)
    /\ LET n == lineno + 1
           line == lines[n]
       IN /\ ~regex_block_start(line)
          /\ ~regex_block_end(line)
          /\ lineno' = n
          /\ in_block' = OnOtherLine(ScanState, line).in_block
          /\ comment' = OnOtherLine(ScanState, line).comment
          /\ data' = OnOtherLine(ScanState, line).data
    /\ UNCHANGED << cmdline, output, outFile, stdout, pc, lines, pipeline,
                    err, status >>

\* A variant of the step below that leaves the loop one line early.
EndOfLinesEarly ==
    /\ pc = "scan"
    /\ lineno + 1 >= Len(lines)
    /\ pc' = "footer"
    /\ UNCHANGED << cmdline, output, outFile, stdout, lines, pipeline, data,
                    in_block, comment, lineno, err, status >>

\* The loop is exhausted.
EndOfLines ==
    /\ pc = "scan"
    /\ lineno = Len(lines)
    /\ pc' = "footer"
    /\ UNCHANGED << cmdline, output, outFile, stdout, lines, pipeline, data,
                    in_block, comment, lineno, err, status >>

FooterStep ==
    /\ pc = "footer"
    /\ data' = AppendFooter(ScanState)
    /\ pc' = "write"
    /\ UNCHANGED << cmdline, output, outFile, stdout, lines, pipeline,
                    in_block, comment, lineno, err, status >>

\* args.output.write(data); return 0
Write ==
    /\ pc = "write"
    /\ IF output = "file"
       THEN outFile' = File(outFile.content \o data) /\ UNCHANGED stdout
       ELSE stdout' = stdout \o data /\ UNCHANGED outFile
    /\ status' = 0
    /\ pc' = "done"
    /\ UNCHANGED << cmdline, output, lines, pipeline, data, in_block,
                    comment, lineno, err >>

Next ==
    \/ ParseArgs
    \/ ReadLines
    \/ ReadLinesFails
    \/ BuildHeader
    \/ ScanStart
    \/ ScanEnd
    \/ ScanOther
    \/ EndOfLines
    \/ FooterStep
    \/ Write

Spec == Init /\ [][Next]_vars

\* main() is one sequential process that runs to its end: a step that can be
\* taken is taken.
FairSpec == Spec /\ WF_vars(Next)

TypeOK ==
    /\ pc \in { "parse_args", "readlines", "header", "scan", "footer",
                "write", "done", "raised" }
    /\ in_block \in BOOLEAN
    /\ lineno \in 0..Len(lines)
    /\ status \in { -1, 0, 1 }

(***************************************************************************)
(* Vocabulary of the properties: the blocks of the input, defined from the *)
(* positions of the delimiter lines and not from the scan.                 *)
(***************************************************************************)
IsStart(i) == regex_block_start(lines[i])

IsEnd(i) == regex_block_end(lines[i])

IsDelimiter(i) == IsStart(i) \/ IsEnd(i)

\* The blocks among the first n lines: a start line, an end line after it,
\* and no delimiter line between the two.
Blocks(n) ==
    { b \in (1..n) \X (1..n) :
        /\ b[1] < b[2]
        /\ IsStart(b[1])
        /\ IsEnd(b[2])
        /\ \A k \in (b[1] + 1)..(b[2] - 1) : ~IsDelimiter(k) }

BlockText(b) == Concat(SubSeq(lines, b[1], b[2]))

FirstBlock(bs) == CHOOSE b \in bs : \A c \in bs : b[1] <= c[1]

LastBlock(bs) == CHOOSE b \in bs : \A c \in bs : c[1] <= b[1]

\* The text the blocks of bs take in the output, in input order.
RECURSIVE BlocksText(_)
BlocksText(bs) ==
    IF bs = { } THEN << >>
    ELSE BlockText(FirstBlock(bs)) \o << NL >>
           \o BlocksText(bs \ { FirstBlock(bs) })

\* Line j is a start line met while an earlier block is still open.
NestedAt(j) ==
    /\ IsStart(j)
    /\ \E i \in 1..(j - 1) :
         IsStart(i) /\ \A k \in (i + 1)..(j - 1) : ~IsEnd(k)

\* Line k is read while no block is open.
OutsideAt(k) ==
    \A i \in 1..(k - 1) : IsStart(i) => \E e \in (i + 1)..(k - 1) : IsEnd(e)

Loaded == pc \in { "header", "scan", "footer", "write", "done" }

Scanning == pc \in { "scan", "footer", "write", "done" }

Written == IF output = "file" THEN outFile.content ELSE stdout

NothingWritten == stdout = << >> /\ outFile.content = << >>

OneBlockInput ==
    /\ Len(lines) >= 2
    /\ IsStart(1)
    /\ IsEnd(Len(lines))
    /\ \A k \in 2..(Len(lines) - 1) : ~IsDelimiter(k)

(***************************************************************************)
(* C1: when the input is exactly one block (a start line, body lines that  *)
(* are no delimiters, an end line), the run raises nothing and what it     *)
(* writes is the header, the lines of the input unmodified and in order,   *)
(* one line terminator, and the footer.                                    *)
(***************************************************************************)
C1_FaithfulCapture ==
    OneBlockInput =>
        /\ err = NoError
        /\ pc = "done" =>
             Written = Header(pipeline) \o Concat(lines) \o << NL >> \o Footer

C1_Witness == pc = "done" /\ OneBlockInput /\ Len(lines) >= 4

(***************************************************************************)
(* C2: in the output of a successful run every block of the input stands   *)
(* at the offset given by the header and the blocks that end before it     *)
(* starts, so that a block that ends before another starts has its text    *)
(* wholly before the text of the other.                                    *)
(***************************************************************************)
RECURSIVE TextLen(_)
TextLen(bs) ==
    IF bs = { } THEN 0
    ELSE LET b == CHOOSE c \in bs : TRUE
         IN Len(BlockText(b)) + 1 + TextLen(bs \ { b })

OffsetOf(b) ==
    Len(Header(pipeline))
      + TextLen({ c \in Blocks(Len(lines)) : c[2] < b[1] })

C2_BlockOrder ==
    pc = "done" =>
        \A b \in Blocks(Len(lines)) :
            /\ SubSeq(Written, OffsetOf(b) + 1,
                      OffsetOf(b) + Len(BlockText(b))) = BlockText(b)
            /\ \A c \in Blocks(Len(lines)) :
                 b[2] < c[1] => OffsetOf(b) + Len(BlockText(b)) < OffsetOf(c) + 1

C2_Witness ==
    /\ pc = "done"
    /\ \E b, c \in Blocks(Len(lines)) :
         b[2] < c[1] /\ BlockText(b) # BlockText(c)

(***************************************************************************)
(* C3: a line that is read while no block is open and that is no start     *)
(* line changes neither the output being assembled nor the accumulator:    *)
(* nothing of its text is kept.                                            *)
(***************************************************************************)
C3_OutsideLineIgnored ==
    [][ ( /\ pc = "scan"
          /\ lineno < Len(lines)
          /\ ~in_block
          /\ ~regex_block_start(lines[lineno + 1]) )
        => (data' = data /\ comment' = comment) ]_vars

C3_Witness ==
    /\ pc = "done"
    /\ \E k \in 1..Len(lines) :
         /\ OutsideAt(k)
         /\ ~IsDelimiter(k)
         /\ Blocks(k) # { }

(***************************************************************************)
(* C4: when a start line is met while an earlier block is still open, the  *)
(* run ends with the malformed-input error at the first such line: the     *)
(* error carries the input path, the 1-based number of that line, column 1 *)
(* and the text of the line, and no later line is taken.  Without such a   *)
(* line, the run raises nothing.                                           *)
(***************************************************************************)
FirstNested ==
    CHOOSE j \in 1..Len(lines) :
        NestedAt(j) /\ \A i \in 1..(j - 1) : ~NestedAt(i)

C4_NestedStartError ==
    /\ (Loaded /\ lineno < Len(lines)) => err = NoError
    /\ (pc \in { "done", "raised" } /\ inputFile.exists) =>
         IF \E j \in 1..Len(lines) : NestedAt(j)
         THEN /\ pc = "raised"
              /\ err = [type |-> "SyntaxError",
                        msg |-> "Expected end of comment",
                        filename |-> input,
                        lineno |-> FirstNested,
                        offset |-> 1,
                        text |-> lines[FirstNested]]
              /\ lineno = FirstNested
              /\ status = 1
         ELSE pc = "done" /\ err = NoError

C4_Witness ==
    /\ pc = "raised"
    /\ err.type = "SyntaxError"
    /\ err.lineno >= 3
    /\ err.lineno < Len(lines)
    /\ ~IsStart(err.lineno - 1)

(***************************************************************************)
(* C5: a run that ends with the malformed-input error has written nothing, *)
(* and anything is written only when every line of the input has been      *)
(* taken without error.                                                    *)
(***************************************************************************)
C5_NoPartialOutput ==
    /\ err.type = "SyntaxError" => NothingWritten
    /\ (pc # "parse_args" /\ ~NothingWritten) =>
         (pc = "done" /\ lineno = Len(lines) /\ err = NoError)

C5_Witness ==
    /\ pc = "raised"
    /\ err.type = "SyntaxError"
    /\ Blocks(lineno) # { }
    /\ output = "file"

(***************************************************************************)
(* C6: an end line met while no block is open raises nothing, and leaves   *)
(* the output being assembled, the accumulator and in_block as they were.  *)
(***************************************************************************)
C6_StrayEndIgnored ==
    [][ ( /\ pc = "scan"
          /\ lineno < Len(lines)
          /\ ~in_block
          /\ regex_block_end(lines[lineno + 1]) )
        => /\ pc' = "scan"
           /\ err' = NoError
           /\ status' = -1
           /\ in_block' = FALSE
           /\ data' = data
           /\ comment' = comment ]_vars

StrayEndAt(k) == IsEnd(k) /\ OutsideAt(k)

C6_Witness ==
    /\ pc = "scan"
    /\ lineno >= 1
    /\ StrayEndAt(lineno)
    /\ Blocks(lineno) # { }

(***************************************************************************)
(* C7: when no start line of the input is followed by an end line, a run   *)
(* that writes its output writes the header and the footer with nothing    *)
(* between them.                                                           *)
(***************************************************************************)
NoPairs ==
    ~ \E i, j \in 1..Len(lines) : i < j /\ IsStart(i) /\ IsEnd(j)

C7_NoBlockNoContent ==
    (pc = "done" /\ NoPairs) => Written = Header(pipeline) \o Footer

C7_Witness ==
    /\ pc = "done"
    /\ NoPairs
    /\ \E i, j \in 1..Len(lines) : IsEnd(i) /\ IsStart(j)

(***************************************************************************)
(* C8: when a block is still open after the last line, the run ends with   *)
(* status 0 and no error, and its output is the header, the blocks closed  *)
(* before, and the footer: the text of the open block is not in it.        *)
(***************************************************************************)
C8_OpenBlockDropped ==
    (pc = "done" /\ in_block) =>
        /\ status = 0
        /\ err = NoError
        /\ Written = Header(pipeline) \o BlocksText(Blocks(Len(lines)))
                       \o Footer

C8_Witness ==
    /\ pc = "done"
    /\ in_block
    /\ Blocks(Len(lines)) # { }
    /\ ~IsStart(Len(lines))

(***************************************************************************)
(* C9, as stated: wherever no block is open the accumulator is empty.      *)
(***************************************************************************)
C9_EmptyOutsideBlock == (Scanning /\ ~in_block) => comment = << >>

(***************************************************************************)
(* C9, amended: wherever no block is open, the accumulator is empty when   *)
(* no block has been closed yet, and is the text of the block closed last  *)
(* otherwise.                                                              *)
(***************************************************************************)
C9_AccumulatorOutsideBlock ==
    (Scanning /\ ~in_block) =>
        comment = IF Blocks(lineno) = { } THEN << >>
                  ELSE BlockText(LastBlock(Blocks(lineno)))

C9_Witness ==
    /\ pc = "scan"
    /\ ~in_block
    /\ lineno >= 1
    /\ StrayEndAt(lineno)
    /\ Blocks(lineno) # { }

(***************************************************************************)
(* C10: whenever the scan appends to the output, the line just taken is an *)
(* end line and the appended text is the lines from the start line that    *)
(* opened the block to that end line, in order, followed by one line       *)
(* terminator; no delimiter line lies between the two.                     *)
(***************************************************************************)
C10_BlockSpan ==
    [][ (pc = "scan" /\ data' # data) =>
          \E i \in 1..lineno :
             /\ << i, lineno' >> \in Blocks(Len(lines))
             /\ data' = data \o Concat(SubSeq(lines, i, lineno')) \o << NL >>
      ]_vars

C10_Witness ==
    /\ pc = "scan"
    /\ ~in_block
    /\ \E b \in Blocks(lineno) :
         b[1] > 1 /\ b[2] > b[1] + 1 /\ b[2] = lineno

(***************************************************************************)
(* C11: in the output of a successful run every block is followed by       *)
(* exactly one blank line: the text of the block ends with a line          *)
(* terminator, one more terminator follows it, and the character after     *)
(* that one is no terminator.                                              *)
(***************************************************************************)
C11_OneBlankLineAfterBlock ==
    pc = "done" =>
        \A b \in Blocks(Len(lines)) :
            LET e == OffsetOf(b) + Len(BlockText(b))
            IN /\ Written[e] = NL
               /\ Written[e + 1] = NL
               /\ Written[e + 2] # NL

(***************************************************************************)
(* C12: in a run whose input file cannot be opened, no step creates,       *)
(* truncates or writes the file named by -o, and nothing goes to standard  *)
(* output.                                                                 *)
(***************************************************************************)
C12_DestinationUntouched ==
    [][ ~inputFile.exists => (outFile' = outFile /\ stdout' = stdout) ]_vars

(***************************************************************************)
(* C13: the derived name is the part of the input path after its last      *)
(* slash, without the suffix .mojom when it ends with it, and otherwise    *)
(* unchanged.                                                              *)
(***************************************************************************)
BaseName(path) ==
    LET slashes == { i \in 1..Len(path) : path[i] = "/" }
        last == CHOOSE i \in slashes : \A j \in slashes : j <= i
    IN IF slashes = { } THEN path ELSE SubSeq(path, last + 1, Len(path))

HasSuffix(s, p) ==
    Len(s) >= Len(p) /\ SubSeq(s, Len(s) - Len(p) + 1, Len(s)) = p

WithoutSuffix(s, p) ==
    IF HasSuffix(s, p) THEN SubSeq(s, 1, Len(s) - Len(p)) ELSE s

C13_NameIsBaseNameWithoutSuffix ==
    Scanning =>
        /\ pipeline = WithoutSuffix(BaseName(input), Mojom)
        /\ HasPrefix(data, Header(WithoutSuffix(BaseName(input), Mojom)))

(***************************************************************************)
(* C14: the loop takes the lines one by one in their order (every step of  *)
(* the scan advances lineno by one and nothing else moves it), and every   *)
(* run on a readable input ends: either with the malformed-input error, or *)
(* with every line taken, the output written once and status 0.            *)
(***************************************************************************)
EndedWithError ==
    pc = "raised" /\ err.type = "SyntaxError" /\ status = 1 /\ NothingWritten

EndedWithOutput ==
    /\ pc = "done"
    /\ status = 0
    /\ err = NoError
    /\ lineno = Len(lines)
    /\ Written = data
    /\ (output = "file" => stdout = << >>)

C14_OrderedScanTerminates ==
    /\ [][ /\ lineno' # lineno => (pc = "scan" /\ lineno' = lineno + 1)
           /\ (pc = "scan" /\ pc' # "footer") => lineno' = lineno + 1
           /\ pc' = "footer" => lineno = Len(lines) ]_vars
    /\ inputFile.exists => <>(EndedWithError \/ EndedWithOutput)
    /\ [](pc \in { "done", "raised" } =>
            (~inputFile.exists \/ EndedWithError \/ EndedWithOutput))

C14_Witness ==
    /\ EndedWithOutput
    /\ Len(lines) >= 4
    /\ Cardinality(Blocks(Len(lines))) = 1
    /\ output = "file"

(***************************************************************************)
(* C15: in the output of a successful run, the number of blocks (counted   *)
(* as the lines of the output that are start lines) is the number of start *)
(* lines of the input, less one when a block is still open at the end.     *)
(***************************************************************************)
StartLinesOfInput == { i \in 1..Len(lines) : IsStart(i) }

\* The positions of the output where a line begins that is a start line; such
\* a line is the literal and at most one terminator.
StartLinesOfOutput ==
    { p \in 1..Len(Written) :
        /\ p = 1 \/ Written[p - 1] = NL
        /\ \E q \in { i \in p..(p + Len(StartLiteral)) : i <= Len(Written) } :
             /\ q = Len(Written) \/ Written[q] = NL
             /\ regex_block_start(SubSeq(Written, p, q))
             /\ \A k \in p..(q - 1) : Written[k] # NL }

C15_BlockCount ==
    pc = "done" =>
        /\ Cardinality(StartLinesOfOutput)
             = Cardinality(StartLinesOfInput) - (IF in_block THEN 1 ELSE 0)
        /\ Cardinality(StartLinesOfOutput) = Cardinality(Blocks(Len(lines)))

C15_Witness ==
    /\ pc = "done"
    /\ in_block
    /\ Cardinality(StartLinesOfInput) >= 2
    /\ \E k \in 1..Len(lines) : StrayEndAt(k)

(***************************************************************************)
(* C16: the outcome of a run does not depend on the lines that are no      *)
(* delimiters and stand outside every block.  For the input of the run and *)
(* every such line of it, the input without that line, and the input with  *)
(* that line replaced by another line that is no delimiter, give under the *)
(* same path the output of the run when the run succeeds, and fail when    *)
(* the run fails; so does the input of the run itself.                     *)
(***************************************************************************)
IgnoredAt(k) == OutsideAt(k) /\ ~IsDelimiter(k)

RemoveAt(ls, k) == SubSeq(ls, 1, k - 1) \o SubSeq(ls, k + 1, Len(ls))

\* The lines that may stand in place of line k: no delimiters, and
\* terminated unless line k is the last one.
ReplacementsAt(k) ==
    { l \in TerminatedLines \cup
              (IF k = Len(lines) THEN UnterminatedLines ELSE { }) :
        ~regex_block_start(l) /\ ~regex_block_end(l) }

VariantsOfInput ==
    { RemoveAt(lines, k) : k \in { i \in 1..Len(lines) : IgnoredAt(i) } }
      \cup UNION { { [lines EXCEPT ![k] = l] : l \in ReplacementsAt(k) } :
                   k \in { i \in 1..Len(lines) : IgnoredAt(i) } }

SameOutcome(r) ==
    IF pc = "done" THEN r.ok /\ r.out = Written ELSE ~r.ok

C16_IgnoredContentIndependence ==
    ((pc = "done" \/ (pc = "raised" /\ inputFile.exists))) =>
        \A v \in VariantsOfInput \cup { lines } : SameOutcome(Main(input, v))

C16_Witness ==
    /\ pc = "done"
    /\ Blocks(Len(lines)) # { }
    /\ \E k \in 1..Len(lines) :
         /\ IgnoredAt(k)
         /\ \E b \in Blocks(Len(lines)) : b[2] < k
         /\ \E e \in (k + 1)..Len(lines) : IsEnd(e)

(***************************************************************************)
(* C17: every step leaves the former value of data as a prefix of the new  *)
(* one, and a step of the scan changes data only when it takes an end line *)
(* while a block is open.                                                  *)
(***************************************************************************)
C17_DataAppendOnly ==
    [][ /\ HasPrefix(data', data)
        /\ (pc = "scan" /\ data' # data) =>
             (in_block /\ regex_block_end(lines[lineno + 1])
                /\ lineno' = lineno + 1) ]_vars

C17_Witness ==
    /\ pc = "scan"
    /\ Cardinality(Blocks(lineno)) >= 2
    /\ \E b \in Blocks(lineno) : b[2] = lineno

=============================================================================
